---- MODULE Spec2Model ----
(***************************************************************************)
(* Model of hotspot/share/utilities/copy.cpp: Copy::conjoint_memory_atomic, *)
(* Copy::fill_to_memory_atomic, Copy::conjoint_copy and Copy::conjoint_swap *)
(* (class CopySwap).  Memory is a byte array; a multi-byte value is the     *)
(* sequence of its bytes in memory order (its object representation), so    *)
(* 64-bit quantities need no 64-bit integer arithmetic.                     *)
(***************************************************************************)
EXTENDS Integers, Sequences, FiniteSets, TLC

VARIABLES
  mem,      \* the byte-addressed memory
  pre,      \* the memory as it was when the current call was entered
  asserts,  \* TRUE in a build that compiles assert() in (debug), FALSE otherwise
  pc,       \* "idle", "running", "done", "abort" (fatal error), "fault" (misaligned typed access)
  call,     \* the arguments of the current call
  dir,      \* CopyDirection of the current conjoint call
  unit,     \* sizeof(T) of the loop chosen by the dispatch
  srcAl,    \* template parameter is_src_aligned
  dstAl,    \* template parameter is_dst_aligned
  i,        \* loop counter of the element loops
  cur_src,  \* cur_src of do_conjoint_swap
  cur_dst,  \* cur_dst of do_conjoint_swap
  off,      \* off of the fill loops
  fill,     \* the fill pattern, as the bytes of the jlong/jint/jshort/jbyte
  written,  \* the byte addresses stored to by the current call
  stores,   \* the base addresses of the stores of the current call
  nstores,  \* the number of stores of the current call
  stale,    \* TRUE once a load read a byte the same call had already stored to
  obs,      \* what the concurrent reader loaded, or NoObs
  round     \* 0 before the first call, 1 in the first call, 2 in the call back

vars == <<mem, pre, asserts, pc, call, dir, unit, srcAl, dstAl, i, cur_src,
          cur_dst, off, fill, written, stores, nstores, stale, obs, round>>

\* ---------------------------------------------------------------- bounds

MemSize == 80    \* bytes of modelled memory, addresses 0 .. MemSize-1
MaxSrc == 8      \* the highest source address a conjoint call is entered with
MaxAddr == 16    \* the highest destination address a conjoint call is entered with
MaxBytes == 16   \* the largest byte count of a conjoint call
MaxAtomicAddr == 8    \* the highest address an atomic copy or fill is entered with
MaxAtomicBytes == 16  \* the largest size of an atomic copy or fill
FillExampleSize == 64 \* the size of the 64-byte fill example

Addr == 0 .. (MemSize - 1)

\* Initial memory: pairwise distinct bytes, so that any misplaced byte shows;
\* addresses 4..7 hold 01 02 03 04.
InitMem == [a \in Addr |-> (a + 253) % 256]

\* ------------------------------------------------------------ byte words

\* The W bytes of memory m at address a (a typed load or a memcpy into tmp).
LoadBytes(m, a, W) == [j \in 1..W |-> m[a + j - 1]]

\* Memory m with the bytes of word w stored at address a.
StoreBytes(m, a, w) ==
  [x \in Addr |-> IF x >= a /\ x < a + Len(w) THEN w[x - a + 1] ELSE m[x]]

\* byteswap(tmp): the bytes of the value in reverse order.
byteswap(w) == [j \in 1..Len(w) |-> w[Len(w) + 1 - j]]

\* (T)value, zero-extended: least significant byte first.
ZeroExtend(v, W) == [j \in 1..W |-> IF j = 1 THEN v ELSE 0]

\* w << (8*k), truncated to the width of w.
ShiftLeftBytes(w, k) == [j \in 1..Len(w) |-> IF j > k THEN w[j - k] ELSE 0]

RECURSIVE CarryInto(_, _, _)
\* The carry into byte j of x + y.
CarryInto(x, y, j) ==
  IF j = 1 THEN 0 ELSE (x[j - 1] + y[j - 1] + CarryInto(x, y, j - 1)) \div 256

\* x + y modulo 2^(8 * Len(x)).
AddWord(x, y) == [j \in 1..Len(x) |-> (x[j] + y[j] + CarryInto(x, y, j)) % 256]

IsZeroWord(w) == \A j \in 1..Len(w) : w[j] = 0

\* ------------------------------------------------------------ classifier

sizeof_jlong == 8
sizeof_jint == 4
sizeof_jshort == 2
sizeof_jbyte == 1

RECURSIVE BitOr(_, _)
\* a | b on unsigned machine words.
BitOr(a, b) ==
  IF a = 0 THEN b
  ELSE IF b = 0 THEN a
  ELSE (IF a % 2 = 1 \/ b % 2 = 1 THEN 1 ELSE 0) + 2 * BitOr(a \div 2, b \div 2)

\* bits of conjoint_memory_atomic.
CopyBits(from, to, size) == BitOr(BitOr(from, to), size)

\* Faulty variant: the destination address is left out of bits.
FillBitsSizeOnly(to, size) == size

\* bits of fill_to_memory_atomic.
FillBits(to, size) == BitOr(to, size)

\* Faulty variant: the jlong branch is guarded by the jint test.
UnitOfJintTestForJlong(bits) ==
  IF bits % sizeof_jint = 0 THEN sizeof_jlong
  ELSE IF bits % sizeof_jshort = 0 THEN sizeof_jshort
  ELSE sizeof_jbyte

\* Faulty variant: the jlong branch is missing.
UnitOfWithoutJlong(bits) ==
  IF bits % sizeof_jint = 0 THEN sizeof_jint
  ELSE IF bits % sizeof_jshort = 0 THEN sizeof_jshort
  ELSE sizeof_jbyte

\* The if-chain on bits % sizeof(...) shared by both atomic operations: the
\* width of the unit loop it selects.
UnitOf(bits) ==
  IF bits % sizeof_jlong = 0 THEN sizeof_jlong
  ELSE IF bits % sizeof_jint = 0 THEN sizeof_jint
  ELSE IF bits % sizeof_jshort = 0 THEN sizeof_jshort
  ELSE sizeof_jbyte

\* Faulty variant: the jlong branch lacks its last doubling, fill += fill << 32.
FillPatternWithoutLastDoubling(U, v) ==
  IF U = sizeof_jlong THEN
    LET f0 == ZeroExtend(v, sizeof_jlong)
        f1 == AddWord(f0, ShiftLeftBytes(f0, 1))
        f2 == AddWord(f1, ShiftLeftBytes(f1, 2))
    IN  IF IsZeroWord(f0) THEN f0 ELSE f2
  ELSE IF U = sizeof_jint THEN
    LET f0 == ZeroExtend(v, sizeof_jint)
        f1 == AddWord(f0, ShiftLeftBytes(f0, 1))
        f2 == AddWord(f1, ShiftLeftBytes(f1, 2))
    IN  IF IsZeroWord(f0) THEN f0 ELSE f2
  ELSE IF U = sizeof_jshort THEN
    LET f0 == ZeroExtend(v, sizeof_jshort)
    IN  AddWord(f0, ShiftLeftBytes(f0, 1))
  ELSE ZeroExtend(v, sizeof_jbyte)

\* The fill pattern built in the branch of width U for fill byte v.
FillPattern(U, v) ==
  IF U = sizeof_jlong THEN
    LET f0 == ZeroExtend(v, sizeof_jlong)
        f1 == AddWord(f0, ShiftLeftBytes(f0, 1))
        f2 == AddWord(f1, ShiftLeftBytes(f1, 2))
        f3 == AddWord(f2, ShiftLeftBytes(f2, 4))
    IN  IF IsZeroWord(f0) THEN f0 ELSE f3
  ELSE IF U = sizeof_jint THEN
    LET f0 == ZeroExtend(v, sizeof_jint)
        f1 == AddWord(f0, ShiftLeftBytes(f0, 1))
        f2 == AddWord(f1, ShiftLeftBytes(f1, 2))
    IN  IF IsZeroWord(f0) THEN f0 ELSE f2
  ELSE IF U = sizeof_jshort THEN
    LET f0 == ZeroExtend(v, sizeof_jshort)
    IN  AddWord(f0, ShiftLeftBytes(f0, 1))
  ELSE ZeroExtend(v, sizeof_jbyte)

\* ------------------------------------------------------- conjoint helpers

ElemSizes == {2, 4, 8}

\* is_aligned(x, alignment) for the alignments used here.
is_aligned(x, alignment) == x % alignment = 0

\* Faulty variant: the aligned instantiation is selected for every address.
TypedAccessAlways(p, W) == TRUE

\* The template argument is_src_aligned / is_dst_aligned that the dispatch on
\* is_aligned(src, sizeof(T)) and is_aligned(dst, sizeof(T)) selects.
TypedAccess(p, W) == is_aligned(p, W)

\* Faulty variant: the overlap test is missing, the copy always ascends.
DirectionAlwaysRight(src, dst, byte_count) == "RIGHT"

\* The direction chosen by conjoint_swap_if_needed.
Direction(src, dst, byte_count) ==
  IF dst <= src \/ dst >= src + byte_count THEN "RIGHT" ELSE "LEFT"

\* The initial cur_src / cur_dst of do_conjoint_swap for base address p.
StartPtr(D, p, byte_count, W) ==
  IF D = "RIGHT" THEN p ELSE p + byte_count - W

\* Faulty variant: the pointers move by one byte, not by sizeof(T).
AdvanceByOneByte(D, p, W) == IF D = "RIGHT" THEN p + 1 ELSE p - 1

\* cur_src / cur_dst after one element.
Advance(D, p, W) == IF D = "RIGHT" THEN p + W ELSE p - W

\* Faulty variant: the swap is never applied.
MaybeSwapNever(swap, tmp) == tmp

\* if (swap) tmp = byteswap(tmp);
MaybeSwap(swap, tmp) == IF swap THEN byteswap(tmp) ELSE tmp

\* byte_count / sizeof(T), the trip count of the element loop.
ElemCount(byte_count, W) == byte_count \div W

\* Faulty variant: the fill loops run while off <= size.
FillLoopCondInclusive(o, size) == o <= size

\* off < size, the condition of the fill loops.
FillLoopCond(o, size) == o < size

\* A typed load or store (*(T*)p) at an address that is not a multiple of
\* sizeof(T): undefined, it faults on some targets.
MisalignedTyped(typed, p, W) == typed /\ p % W # 0

\* ----------------------------------------------------------------- state

AtomicKinds == {"conjoint_memory_atomic", "fill_to_memory_atomic"}
ConjointKinds == {"conjoint_copy", "conjoint_swap"}

NoCall == [kind |-> "none", src |-> 0, dst |-> 0, size |-> 0, elem |-> 0, value |-> 0]
NoObs == [a |-> -1, val |-> <<>>]

Range(p, n) == p .. (p + n - 1)

Init ==
  /\ mem = InitMem
  /\ pre = InitMem
  /\ asserts \in BOOLEAN
  /\ pc = "idle"
  /\ call = NoCall
  /\ dir = "-"
  /\ unit = 0
  /\ srcAl = FALSE
  /\ dstAl = FALSE
  /\ i = 0
  /\ cur_src = 0
  /\ cur_dst = 0
  /\ off = 0
  /\ fill = <<>>
  /\ written = {}
  /\ stores = {}
  /\ nstores = 0
  /\ stale = FALSE
  /\ obs = NoObs
  /\ round = 0

\* The state on entry to the loop of a call (or at its fatal error).
Begin(c, status, D, U, sa, da, cs, cd, f, rnd) ==
  /\ call' = c
  /\ pc' = status
  /\ pre' = mem
  /\ dir' = D
  /\ unit' = U
  /\ srcAl' = sa
  /\ dstAl' = da
  /\ i' = 0
  /\ cur_src' = cs
  /\ cur_dst' = cd
  /\ off' = 0
  /\ fill' = f
  /\ written' = {}
  /\ stores' = {}
  /\ nstores' = 0
  /\ stale' = FALSE
  /\ obs' = NoObs
  /\ round' = rnd
  /\ UNCHANGED <<mem, asserts>>

\* One store of the bytes w at address p, reading the bytes rd.
StoreStep(p, w, rd) ==
  /\ mem' = StoreBytes(mem, p, w)
  /\ written' = written \cup Range(p, Len(w))
  /\ stores' = stores \cup {p}
  /\ nstores' = nstores + 1
  /\ stale' = IF rd \cap written = {} THEN stale ELSE TRUE

\* ---------------------------------------------- Copy::conjoint_memory_atomic

EnterCopyAtomic(from, to, size) ==
  LET U == UnitOf(CopyBits(from, to, size))
      c == [kind |-> "conjoint_memory_atomic", src |-> from, dst |-> to,
            size |-> size, elem |-> 0, value |-> 0]
  IN  Begin(c, "running", "RIGHT", U, U > 1, U > 1, from, to, <<>>, 1)

\* Copy::conjoint_jlongs_atomic / jints / jshorts / conjoint_jbytes: one unit,
\* loaded and stored with a single typed access, lowest address first.
conjoint_units_atomic ==
  /\ pc = "running"
  /\ call.kind = "conjoint_memory_atomic"
  /\ i < call.size \div unit
  /\ StoreStep(cur_dst, LoadBytes(mem, cur_src, unit), Range(cur_src, unit))
  /\ pc' \in (IF MisalignedTyped(srcAl, cur_src, unit) THEN {"running", "fault"}
              ELSE IF MisalignedTyped(dstAl, cur_dst, unit) THEN {"running", "fault"}
              ELSE {"running"})
  /\ i' = i + 1
  /\ cur_src' = cur_src + unit
  /\ cur_dst' = cur_dst + unit
  /\ UNCHANGED <<pre, asserts, call, dir, unit, srcAl, dstAl, off, fill, obs, round>>

\* ----------------------------------------------- Copy::fill_to_memory_atomic

EnterFill(to, size, value) ==
  LET U == UnitOf(FillBits(to, size))
      c == [kind |-> "fill_to_memory_atomic", src |-> to, dst |-> to,
            size |-> size, elem |-> 0, value |-> value]
  IN  Begin(c, "running", "RIGHT", U, FALSE, U > 1, to, to, FillPattern(U, value), 1)

\* One iteration of the fill loop of the selected width.
fill_loop ==
  /\ pc = "running"
  /\ call.kind = "fill_to_memory_atomic"
  /\ FillLoopCond(off, call.size)
  /\ StoreStep(call.dst + off, fill, {})
  /\ pc' \in (IF MisalignedTyped(dstAl, call.dst + off, unit) THEN {"running", "fault"}
              ELSE {"running"})
  /\ off' = off + unit
  /\ UNCHANGED <<pre, asserts, call, dir, unit, srcAl, dstAl, i, cur_src, cur_dst,
                 fill, obs, round>>

\* ------------------------------------------------------------- CopySwap

\* The asserts of conjoint_swap_if_needed on elem_size and byte_count.
AssertsHold(byte_count, elem_size) ==
  elem_size \in ElemSizes /\ is_aligned(byte_count, elem_size)

\* The call ends in a fatal error: a failed assert (when compiled in) or the
\* guarantee(false) of the elem_size switch.
Fatal(byte_count, elem_size) ==
  (asserts /\ ~AssertsHold(byte_count, elem_size)) \/ elem_size \notin ElemSizes

conjoint_swap_if_needed(swap, src, dst, byte_count, elem_size, rnd) ==
  LET c == [kind |-> IF swap THEN "conjoint_swap" ELSE "conjoint_copy",
            src |-> src, dst |-> dst, size |-> byte_count, elem |-> elem_size,
            value |-> 0]
      D == Direction(src, dst, byte_count)
  IN  IF Fatal(byte_count, elem_size)
      THEN Begin(c, "abort", "-", 0, FALSE, FALSE, 0, 0, <<>>, rnd)
      ELSE Begin(c, "running", D, elem_size,
                 TypedAccess(src, elem_size), TypedAccess(dst, elem_size),
                 StartPtr(D, src, byte_count, elem_size),
                 StartPtr(D, dst, byte_count, elem_size), <<>>, rnd)

\* One iteration of the element loop of do_conjoint_swap<T,D,swap,..>.
do_conjoint_swap ==
  /\ pc = "running"
  /\ call.kind \in ConjointKinds
  /\ i < ElemCount(call.size, unit)
  /\ LET tmp == LoadBytes(mem, cur_src, unit)
     IN  StoreStep(cur_dst, MaybeSwap(call.kind = "conjoint_swap", tmp),
                   Range(cur_src, unit))
  /\ pc' \in (IF MisalignedTyped(srcAl, cur_src, unit) THEN {"running", "fault"}
              ELSE IF MisalignedTyped(dstAl, cur_dst, unit) THEN {"running", "fault"}
              ELSE {"running"})
  /\ i' = i + 1
  /\ cur_src' = Advance(dir, cur_src, unit)
  /\ cur_dst' = Advance(dir, cur_dst, unit)
  /\ UNCHANGED <<pre, asserts, call, dir, unit, srcAl, dstAl, off, fill, obs, round>>

\* The loop of the current call has run to its end.
LoopDone ==
  IF call.kind = "fill_to_memory_atomic" THEN ~FillLoopCond(off, call.size)
  ELSE IF call.kind = "conjoint_memory_atomic" THEN ~(i < call.size \div unit)
  ELSE ~(i < ElemCount(call.size, unit))

\* The call returns to its caller.
Return ==
  /\ pc = "running"
  /\ LoopDone
  /\ pc' = "done"
  /\ UNCHANGED <<mem, pre, asserts, call, dir, unit, srcAl, dstAl, i, cur_src,
                 cur_dst, off, fill, written, stores, nstores, stale, obs, round>>

\* ------------------------------------------------------------- the calls

\* The element sizes callers are modelled to pass: the three supported ones
\* and an unsupported one.
CallElemSizes == ElemSizes \cup {3}

FillValues == {0, 1, 128, 171, 255}

\* The fills callers are modelled to make: every address, size and value of
\* the bounds, and fill(8, 64, 0xAB).
FillCalls ==
  {c \in (0..MaxAtomicAddr) \X (0..MaxAtomicBytes) \X FillValues : TRUE}
    \cup {<<8, FillExampleSize, 171>>}

\* The operands the classification alone is exercised on.
ClassifyOperands == {0, 1, 2, 4, 6, 8, 16, 24, 1024}

\* A forward unit copy is given regions a forward copy is safe on.
ForwardSafe(from, to, size) == to <= from \/ to >= from + size

conjoint_memory_atomic ==
  /\ pc = "idle"
  /\ \E from \in 0..MaxAtomicAddr, to \in 0..MaxAtomicAddr, size \in 0..MaxAtomicBytes :
       /\ from + size <= MemSize
       /\ to + size <= MemSize
       /\ ForwardSafe(from, to, size)
       /\ EnterCopyAtomic(from, to, size)

fill_to_memory_atomic ==
  /\ pc = "idle"
  /\ \E c \in FillCalls :
       /\ c[1] + c[2] <= MemSize
       /\ EnterFill(c[1], c[2], c[3])

conjoint_copy ==
  /\ pc = "idle"
  /\ \E src \in 1..MaxSrc, dst \in 1..MaxAddr, byte_count \in 0..MaxBytes,
        elem_size \in CallElemSizes :
       /\ src + byte_count <= MemSize
       /\ dst + byte_count <= MemSize
       /\ conjoint_swap_if_needed(FALSE, src, dst, byte_count, elem_size, 1)

conjoint_swap ==
  /\ pc = "idle"
  /\ \E src \in 1..MaxSrc, dst \in 1..MaxAddr, byte_count \in 0..MaxBytes,
        elem_size \in CallElemSizes :
       /\ src + byte_count <= MemSize
       /\ dst + byte_count <= MemSize
       /\ conjoint_swap_if_needed(TRUE, src, dst, byte_count, elem_size, 1)

\* The placements of the round trip: in place, or a destination disjoint
\* from the source.
RoundTripPlacement(src, dst, size) ==
  dst = src \/ dst + size <= src \/ src + size <= dst

\* The second call of a round trip: conjoint_swap again, in place or from the
\* first call's destination back to its source.
conjoint_swap_back ==
  /\ pc = "done"
  /\ round = 1
  /\ call.kind = "conjoint_swap"
  /\ AssertsHold(call.size, call.elem)
  /\ RoundTripPlacement(call.src, call.dst, call.size)
  /\ conjoint_swap_if_needed(TRUE, call.dst, call.src, call.size, call.elem, 2)

\* A unit of width W at address a that shares bytes with [dst, dst+size).
DestUnit(a, W, dst, size) ==
  /\ a % W = 0
  /\ a + W <= MemSize
  /\ a < dst + size
  /\ a + W > dst

\* Another thread loads one aligned unit of the destination while an atomic
\* copy or fill is running.
Reader ==
  /\ pc = "running"
  /\ call.kind \in AtomicKinds
  /\ obs = NoObs
  /\ \E a \in Addr :
       /\ DestUnit(a, unit, call.dst, call.size)
       /\ obs' = [a |-> a, val |-> LoadBytes(mem, a, unit)]
  /\ UNCHANGED <<mem, pre, asserts, pc, call, dir, unit, srcAl, dstAl, i, cur_src,
                 cur_dst, off, fill, written, stores, nstores, stale, round>>

Next ==
  \/ conjoint_memory_atomic
  \/ conjoint_units_atomic
  \/ fill_to_memory_atomic
  \/ fill_loop
  \/ conjoint_copy
  \/ conjoint_swap
  \/ conjoint_swap_back
  \/ do_conjoint_swap
  \/ Return
  \/ Reader

Spec == Init /\ [][Next]_vars

\* The unit selection alone, on operands beyond the modelled memory.
classify_copy ==
  /\ pc = "idle"
  /\ \E from \in ClassifyOperands, to \in ClassifyOperands, size \in ClassifyOperands :
       EnterCopyAtomic(from, to, size)

classify_fill ==
  /\ pc = "idle"
  /\ \E to \in ClassifyOperands, size \in ClassifyOperands, value \in FillValues :
       EnterFill(to, size, value)

NextClassify == classify_copy \/ classify_fill

SpecClassify == Init /\ [][NextClassify]_vars

\* The fill alone, for every fill byte, on one call of each alignment class
\* (8-, 4-, 2- and 1-byte units), the 64-byte example and the empty fill.
FillClassCalls == {<<8, 16>>, <<4, 8>>, <<2, 4>>, <<1, 3>>, <<8, FillExampleSize>>, <<0, 0>>}

fill_any_value ==
  /\ pc = "idle"
  /\ \E c \in FillClassCalls, value \in 0..255 :
       /\ c[1] + c[2] <= MemSize
       /\ EnterFill(c[1], c[2], value)

NextFill == fill_any_value \/ fill_loop \/ Return

SpecFill == Init /\ [][NextFill]_vars

\* ================================================================ claims

\* The current conjoint call meets the contract on its element size and
\* byte count.
ValidCall == call.elem \in {2, 4, 8} /\ call.size % call.elem = 0

\* C1: conjoint_copy with a supported element width and a byte count that is
\* a multiple of it never aborts or faults, whatever the offset between src
\* and dst and their alignment, and when it returns the byte_count
\* destination bytes equal the source bytes as they were before the call.
C1_ConjointCopyIsMemmove ==
  (call.kind = "conjoint_copy" /\ ValidCall) =>
    /\ pc \in {"running", "done"}
    /\ pc = "done" =>
         \A j \in 0 .. (call.size - 1) : mem[call.dst + j] = pre[call.src + j]

\* A two-element copy of 8-byte elements to a destination inside the source
\* range at an offset that is no multiple of the element width has returned.
C1_Witness ==
  /\ pc = "done"
  /\ call.kind = "conjoint_copy"
  /\ call.elem = 8
  /\ call.size = 16
  /\ call.src < call.dst
  /\ call.dst < call.src + call.size
  /\ (call.dst - call.src) % 8 # 0

\* C2: after conjoint_swap with a supported element width and a byte count
\* that is a multiple of it, for every placement of dst relative to src, each
\* destination element holds the bytes of the same source element as it was
\* before the call, in reverse order; conjoint_swap(buf, buf, 4, 4) on
\* 01 02 03 04 leaves 04 03 02 01.
C2_SwapReversesEachElement ==
  (call.kind = "conjoint_swap" /\ ValidCall /\ pc = "done") =>
    /\ \A e \in 0 .. (call.size \div call.elem - 1) :
         \A j \in 0 .. (call.elem - 1) :
           mem[call.dst + e * call.elem + j]
             = pre[call.src + e * call.elem + (call.elem - 1 - j)]
    /\ (/\ call.src = call.dst
        /\ call.size = 4
        /\ call.elem = 4
        /\ LoadBytes(pre, call.src, 4) = <<1, 2, 3, 4>>)
         => LoadBytes(mem, call.dst, 4) = <<4, 3, 2, 1>>

\* A swap of several 4-byte elements to a destination partially overlapping
\* the source has returned.
C2_Witness ==
  /\ pc = "done"
  /\ call.kind = "conjoint_swap"
  /\ call.elem = 4
  /\ call.size >= 8
  /\ call.src < call.dst
  /\ call.dst < call.src + call.size

\* C3: conjoint_swap applied twice restores the original bytes of the buffer,
\* both in place and when the first call goes to a disjoint destination and
\* the second call copies back.
C3_SwapTwiceRestores ==
  (round = 2 /\ pc = "done") =>
    \A j \in 0 .. (call.size - 1) : mem[call.dst + j] = InitMem[call.dst + j]

\* The call back of a round trip through a disjoint destination, of at least
\* two elements, has returned.
C3_Witness ==
  /\ round = 2
  /\ pc = "done"
  /\ call.src # call.dst
  /\ call.size >= 2 * call.elem

\* C4: a unit of the chosen width that a concurrent reader loaded from an
\* aligned address of the destination while an atomic copy or fill was
\* running is the unit's complete value from before the call or its complete
\* final value.
C4_TearFree ==
  (pc = "done" /\ obs # NoObs) =>
    obs.val \in {LoadBytes(pre, obs.a, unit), LoadBytes(mem, obs.a, unit)}

\* A reader has seen the new value of the first of two 8-byte units of a fill.
C4_Witness ==
  /\ pc = "done"
  /\ call.kind = "fill_to_memory_atomic"
  /\ unit = 8
  /\ call.size = 16
  /\ obs # NoObs
  /\ obs.a = call.dst
  /\ obs.val = fill

\* from | to | size of an atomic copy, to | size of an atomic fill.
OperandBits ==
  IF call.kind = "conjoint_memory_atomic"
  THEN BitOr(call.src, BitOr(call.dst, call.size))
  ELSE BitOr(call.dst, call.size)

\* C5: an atomic copy or fill uses the largest unit in {8,4,2,1} that divides
\* the OR of its operands; that unit divides size, every store is at a
\* multiple of it and inside [to, to+size), and size/unit units are stored.
C5_UnitSelection ==
  (call.kind \in AtomicKinds) =>
    /\ unit \in {8, 4, 2, 1}
    /\ OperandBits % unit = 0
    /\ \A u \in {8, 4, 2, 1} : OperandBits % u = 0 => u <= unit
    /\ call.size % unit = 0
    /\ \A p \in stores :
         /\ p % unit = 0
         /\ call.dst <= p
         /\ p + unit <= call.dst + call.size
    /\ Cardinality(stores) = nstores
    /\ pc = "done" => nstores = call.size \div unit

\* An atomic copy that used the 4-byte unit has stored several units and
\* returned.
C5_Witness ==
  /\ pc = "done"
  /\ call.kind = "conjoint_memory_atomic"
  /\ unit = 4
  /\ nstores >= 2

\* The operands of the current atomic call are exactly 0 and 1024.
OperandsZeroAnd1024 ==
  \/ /\ call.kind = "fill_to_memory_atomic"
     /\ {call.dst, call.size} = {0, 1024}
  \/ /\ call.kind = "conjoint_memory_atomic"
     /\ {call.src, call.dst, call.size} = {0, 1024}

\* C6 as stated: the operand set {0, 1024} is classified as the 1-byte unit.
C6_ZeroAnd1024GivesByteUnit == OperandsZeroAnd1024 => unit = 1

\* C6 as amended: the operand set {0, 1024} is classified as the 8-byte
\* unit; an operand equal to 0 does not restrict the unit.
C6_ZeroAnd1024GivesLongUnit == OperandsZeroAnd1024 => unit = 8

\* A fill of 1024 bytes at address 0 has selected its unit.
C6_Witness ==
  /\ pc = "running"
  /\ call.kind = "fill_to_memory_atomic"
  /\ call.dst = 0
  /\ call.size = 1024

\* C7: for every fill byte and alignment class the fill pattern has the
\* width of the unit and every byte of it equals the fill byte, and when the
\* fill returns every byte of [to, to+size) equals the fill byte.
C7_FillPatternUniform ==
  (call.kind = "fill_to_memory_atomic") =>
    /\ Len(fill) = unit
    /\ \A j \in 1 .. unit : fill[j] = call.value
    /\ pc = "done" =>
         \A a \in call.dst .. (call.dst + call.size - 1) : mem[a] = call.value

\* fill(8, 64, 0xAB) has returned, having used the 8-byte unit.
C7_Witness ==
  /\ pc = "done"
  /\ call.kind = "fill_to_memory_atomic"
  /\ call.dst = 8
  /\ call.size = 64
  /\ call.value = 171
  /\ unit = 8

\* C8 as stated: a conjoint call whose element size is unsupported or whose
\* byte count is no multiple of the element size ends in the fatal error; it
\* never returns as a normal transfer.
C8_InvalidCallIsFatal ==
  (call.kind \in ConjointKinds /\ ~ValidCall) => pc # "done"

\* C9: no call changes a byte outside [to, to+size); a call of size 0 (with a
\* supported element width, for the conjoint calls) is not an error, stores
\* nothing and leaves memory as it was.
C9_FrameAndEmptyCall ==
  (call.kind # "none") =>
    /\ \A a \in Addr :
         (a < call.dst \/ a >= call.dst + call.size) => mem[a] = pre[a]
    /\ (call.size = 0 /\ (call.kind \in ConjointKinds => call.elem \in {2, 4, 8}))
         => /\ pc \in {"running", "done"}
            /\ pc = "running" => LoopDone
            /\ nstores = 0
            /\ mem = pre

\* An empty conjoint_swap of 8-byte elements at a misaligned address has
\* returned.
C9_Witness ==
  /\ pc = "done"
  /\ call.kind = "conjoint_swap"
  /\ call.size = 0
  /\ call.elem = 8
  /\ call.src % 8 # 0

\* C10: a conjoint call traverses descending (from the last element) exactly
\* when src < dst < src + byte_count and ascending otherwise, and no load
\* reads a byte that a store of the same call has already written;
\* conjoint_copy(src, src+2, 8, 2) traverses descending.
C10_DirectionSelection ==
  (call.kind \in ConjointKinds /\ pc # "abort") =>
    /\ dir = "LEFT" <=> (call.src < call.dst /\ call.dst < call.src + call.size)
    /\ dir = "LEFT" =>
         /\ cur_src = call.src + call.size - unit * (i + 1)
         /\ cur_dst = call.dst + call.size - unit * (i + 1)
    /\ dir # "LEFT" =>
         /\ dir = "RIGHT"
         /\ cur_src = call.src + unit * i
         /\ cur_dst = call.dst + unit * i
    /\ ~stale
    /\ (call.dst = call.src + 2 /\ call.size = 8 /\ call.elem = 2) => dir = "LEFT"

\* conjoint_copy(src, src+2, 8, 2) is half way through its descending
\* traversal.
C10_Witness ==
  /\ pc = "running"
  /\ call.kind = "conjoint_copy"
  /\ call.dst = call.src + 2
  /\ call.size = 8
  /\ call.elem = 2
  /\ dir = "LEFT"
  /\ i = 2

====
